---------------------------- MODULE Spec2Model ----------------------------
(***************************************************************************)
(* The four migration scripts of src-tauri: fix_all_db_paths.py,           *)
(* fix_commands.py, fix_commands2.py and fix_db_paths_v2.py.  Each reads   *)
(* src/commands.rs, applies its re.sub rule(s), opens the file for writing *)
(* (which truncates it), writes the result and prints a message.           *)
(*                                                                         *)
(* A document is a sequence of lexemes.  A lexeme is a single whitespace   *)
(* character, a single punctuation character, a word, or one of the longer *)
(* literal stretches of the scripts' patterns that hold no quantifier.     *)
(* The concatenation of the lexemes is the text of the document; no two    *)
(* different lexeme sequences built below spell the same text.             *)
(***************************************************************************)
EXTENDS Integers, Sequences, FiniteSets

-----------------------------------------------------------------------------
(* Lexemes *)

SP == " "
NL == "\n"
TAB == "\t"
NUL == "\\0"

APP_PATH == "app.path().app_data_dir()"
MAP_ERR == "map_err(|e|"
LOG_ERR == "logger.error(&format!(\"Failed to get app data directory: {}\", e));"
TO_STRING == "e.to_string()"
JOIN_DB == "app_data_dir.join(\"novel_studio.db\")"
GET_DB_PATH == "get_db_path(&app)"
STATE_DBPATH == "State<'_, DbPath>"

\* \s of the patterns
Whitespace == {SP, NL, TAB}

\* \w+ : the words that occur in the documents
Words ==
  {"let", "app_data_dir", "db_path", "pub", "async", "fn", "app", "AppHandle",
   "get_connection", "as_path", "create_project", "id", "String"}

Punctuation == {"=", ".", "{", "}", "(", ")", "?", ";", ":", ",", "&"}

Tokens ==
  Whitespace \cup Words \cup Punctuation
    \cup {APP_PATH, MAP_ERR, LOG_ERR, TO_STRING, JOIN_DB, GET_DB_PATH, STATE_DBPATH, NUL}

\* the lexemes whose text holds a ")"
HasRParen == {")", APP_PATH, LOG_ERR, TO_STRING, JOIN_DB, GET_DB_PATH}

\* [^)] of the signature rule
NotRParen == Tokens \ HasRParen

-----------------------------------------------------------------------------
(* Regular expressions: a pattern is a sequence of items, each a literal    *)
(* stretch of lexemes or a greedy repetition of one lexeme class, matched   *)
(* with backtracking as Python's re does.                                   *)

Lit(ts) == [kind |-> "lit", lits |-> ts, cls |-> {}, min |-> 0, many |-> FALSE]
Opt(t) == [kind |-> "rep", lits |-> <<>>, cls |-> {t}, min |-> 0, many |-> FALSE]
Star(C) == [kind |-> "rep", lits |-> <<>>, cls |-> C, min |-> 0, many |-> TRUE]
Plus(C) == [kind |-> "rep", lits |-> <<>>, cls |-> C, min |-> 1, many |-> TRUE]

Rep(n, t) == [k \in 1..n |-> t]

NoMatch == [ok |-> FALSE, ends |-> <<>>]

Least(S) == CHOOSE x \in S : \A y \in S : x <= y

\* how many lexemes of class C stand at doc[i], doc[i+1], ...
RunLen(C, doc, i) ==
  (CHOOSE j \in i..(Len(doc) + 1) :
     /\ j = Len(doc) + 1 \/ doc[j] \notin C
     /\ \A k \in i..(j - 1) : doc[k] \in C) - i

\* the lexemes ts stand at doc[i], doc[i+1], ...
StandsAt(ts, doc, i) ==
  /\ i + Len(ts) - 1 <= Len(doc)
  /\ \A k \in 1..Len(ts) : doc[i + k - 1] = ts[k]

RECURSIVE MatchFrom(_, _, _, _)
RECURSIVE TryLen(_, _, _, _, _)
\* items k.. of pat matched at position i of doc: the end position of each
\* item (the position after its last lexeme), the longest repetition that
\* lets the rest match being taken first
MatchFrom(pat, k, doc, i) ==
  IF k > Len(pat) THEN [ok |-> TRUE, ends |-> <<>>]
  ELSE IF pat[k].kind = "lit"
  THEN IF StandsAt(pat[k].lits, doc, i)
       THEN LET rest == MatchFrom(pat, k + 1, doc, i + Len(pat[k].lits))
            IN  IF rest.ok
                THEN [ok |-> TRUE, ends |-> <<i + Len(pat[k].lits)>> \o rest.ends]
                ELSE NoMatch
       ELSE NoMatch
  ELSE LET run == RunLen(pat[k].cls, doc, i)
           most == IF pat[k].many THEN run ELSE IF run > 1 THEN 1 ELSE run
       IN  TryLen(pat, k, doc, i, most)

TryLen(pat, k, doc, i, n) ==
  IF n < pat[k].min THEN NoMatch
  ELSE LET rest == MatchFrom(pat, k + 1, doc, i + n)
       IN  IF rest.ok THEN [ok |-> TRUE, ends |-> <<i + n>> \o rest.ends]
           ELSE TryLen(pat, k, doc, i, n - 1)

\* re.match at position i: where the match ends, 0 when there is none
MatchEnd(pat, doc, i) ==
  LET m == MatchFrom(pat, 1, doc, i)
  IN  IF m.ok THEN m.ends[Len(m.ends)] ELSE 0

\* the text of group g of the match of rule at position i
Group(rule, doc, i, g) ==
  LET m == MatchFrom(rule.pat, 1, doc, i)
      k == rule.groups[g]
      from == IF k = 1 THEN i ELSE m.ends[k - 1]
  IN  SubSeq(doc, from, m.ends[k] - 1)

RECURSIVE Expand(_, _, _, _)
\* the replacement template of rule, from its item j on, for the match at i
Expand(rule, doc, i, j) ==
  IF j > Len(rule.repl) THEN <<>>
  ELSE (IF rule.repl[j].g = 0 THEN rule.repl[j].ts
        ELSE Group(rule, doc, i, rule.repl[j].g))
         \o Expand(rule, doc, i, j + 1)

T(ts) == [g |-> 0, ts |-> ts]
G(g) == [g |-> g, ts |-> <<>>]

\* a match of pat can start with lexeme t
CanStart(pat, t) == pat[1].kind = "rep" \/ t = pat[1].lits[1]

\* the positions from i on where a non-empty match of pat starts
MatchStarts(pat, doc, i) ==
  {j \in i..Len(doc) : CanStart(pat, doc[j]) /\ MatchEnd(pat, doc, j) > j}

RECURSIVE SubFrom(_, _, _)
\* re.sub(rule.pat, rule.repl, doc) from position i on: the matches are taken
\* leftmost first and do not overlap; n counts the substitutions
SubFrom(rule, doc, i) ==
  LET starts == MatchStarts(rule.pat, doc, i)
  IN  IF starts = {} THEN [doc |-> SubSeq(doc, i, Len(doc)), n |-> 0]
      ELSE LET j == Least(starts)
               rest == SubFrom(rule, doc, MatchEnd(rule.pat, doc, j))
           IN  [doc |-> SubSeq(doc, i, j - 1) \o Expand(rule, doc, j, 1) \o rest.doc,
                n |-> rest.n + 1]

\* re.sub with count=1: the first match only
re_sub_first(rule, doc) ==
  LET starts == MatchStarts(rule.pat, doc, 1)
  IN  IF starts = {} THEN [doc |-> doc, n |-> 0]
      ELSE LET j == Least(starts)
           IN  [doc |-> SubSeq(doc, 1, j - 1) \o Expand(rule, doc, j, 1)
                          \o SubSeq(doc, MatchEnd(rule.pat, doc, j), Len(doc)),
                n |-> 1]

re_sub(rule, doc) == SubFrom(rule, doc, 1)

-----------------------------------------------------------------------------
(* The rules of the four scripts *)

LetAppDataDir == <<"let", SP, "app_data_dir", SP, "=", SP>>
LetDbPath == <<"let", SP, "db_path", SP, "=", SP>>
Indent(n) == Rep(n, SP)

\* fix_all_db_paths.py
FixAllDbPaths_pattern ==
  <<Lit(LetAppDataDir \o <<APP_PATH>>), Star(Whitespace),
    Lit(<<".", MAP_ERR, SP, "{">>), Star(Whitespace),
    Lit(<<LOG_ERR>>), Star(Whitespace),
    Lit(<<TO_STRING>>), Star(Whitespace),
    Lit(<<"}">>), Opt(")"), Lit(<<";">>), Star(Whitespace),
    Lit(LetDbPath \o <<JOIN_DB, ";">>)>>

FixAllDbPaths_replacement == <<T(LetDbPath \o <<GET_DB_PATH, "?", ";">>)>>

FixAllDbPaths_rule ==
  [pat |-> FixAllDbPaths_pattern, repl |-> FixAllDbPaths_replacement, groups |-> <<>>]

\* fix_commands2.py
FixCommands2_pattern ==
  <<Lit(<<APP_PATH>>), Star(Whitespace), Lit(<<".">>), Star(Whitespace),
    Lit(<<MAP_ERR, SP, "{">>), Star(Whitespace),
    Lit(<<LOG_ERR>>), Star(Whitespace),
    Lit(<<TO_STRING>>), Star(Whitespace),
    Lit(<<"}">>), Opt(")"), Lit(<<";">>), Star(Whitespace),
    Lit(LetDbPath \o <<JOIN_DB, ";">>)>>

FixCommands2_replacement == <<T(LetDbPath \o <<GET_DB_PATH, "?">>)>>

FixCommands2_rule ==
  [pat |-> FixCommands2_pattern, repl |-> FixCommands2_replacement, groups |-> <<>>]

\* fix_db_paths_v2.py: the pattern spells its line breaks and indentation out
old_pattern ==
  <<Lit(Indent(4) \o LetAppDataDir \o <<APP_PATH, NL>>
          \o Indent(8) \o <<".", MAP_ERR, SP, "{", NL>>
          \o Indent(12) \o <<LOG_ERR, NL>>
          \o Indent(12) \o <<TO_STRING, NL>>
          \o Indent(8) \o <<"}">>),
    Opt(")"),
    Lit(<<";", NL>> \o Indent(4) \o LetDbPath \o <<JOIN_DB, ";">>)>>

new_code == <<T(Indent(4) \o LetDbPath \o <<GET_DB_PATH, "?", ";">>)>>

FixDbPathsV2_rule == [pat |-> old_pattern, repl |-> new_code, groups |-> <<>>]

\* fix_commands.py, first re.sub: the signature rule
signature_pattern ==
  <<Lit(<<"pub", SP, "async", SP, "fn", SP>>), Plus(Words), Lit(<<"(">>),
    Star(NotRParen), Lit(<<"db_path", ":", SP, STATE_DBPATH>>), Star(NotRParen)>>

\* a template that adds the app parameter and keeps db_path
signature_replacement_keeps ==
  <<T(<<"pub", SP, "async", SP, "fn", SP>>), G(1),
    T(<<"(", NL>> \o Indent(4) \o <<"app", ":", SP, "AppHandle", ",", SP,
                                    "db_path", ":", SP, STATE_DBPATH>>), G(2)>>

signature_replacement ==
  <<T(<<"pub", SP, "async", SP, "fn", SP>>), G(1),
    T(<<"(", NL>> \o Indent(4) \o <<"app", ":", SP, "AppHandle", ",">>), G(2)>>

signature_rule ==
  [pat |-> signature_pattern, repl |-> signature_replacement, groups |-> <<2, 6>>]

\* fix_commands.py, second re.sub: the get_connection rule
get_connection_pattern ==
  <<Lit(<<"get_connection", "(", "db_path", ".", "as_path", "(", ")", ")">>)>>

get_connection_replacement ==
  <<T(<<"get_connection", "(", "&", GET_DB_PATH, "?", ")">>)>>

get_connection_rule ==
  [pat |-> get_connection_pattern, repl |-> get_connection_replacement,
   groups |-> <<>>]

-----------------------------------------------------------------------------
(* What each script does to the content it read (its re.sub lines); n is    *)
(* the number of substitutions made.                                        *)

Scripts == {"fix_all_db_paths", "fix_commands", "fix_commands2", "fix_db_paths_v2"}

fix_all_db_paths(doc) == re_sub(FixAllDbPaths_rule, doc)

fix_commands(doc) ==
  LET first == re_sub(signature_rule, doc)
      second == re_sub(get_connection_rule, first.doc)
  IN  [doc |-> second.doc, n |-> first.n + second.n]

fix_commands2(doc) == re_sub(FixCommands2_rule, doc)

fix_db_paths_v2(doc) == re_sub(FixDbPathsV2_rule, doc)

\* the rules a script applies, in the order it applies them
RulesOf(s) ==
  CASE s = "fix_all_db_paths" -> <<FixAllDbPaths_rule>>
    [] s = "fix_commands" -> <<signature_rule, get_connection_rule>>
    [] s = "fix_commands2" -> <<FixCommands2_rule>>
    [] s = "fix_db_paths_v2" -> <<FixDbPathsV2_rule>>

Rewrite(s, doc) ==
  CASE s = "fix_all_db_paths" -> fix_all_db_paths(doc)
    [] s = "fix_commands" -> fix_commands(doc)
    [] s = "fix_commands2" -> fix_commands2(doc)
    [] s = "fix_db_paths_v2" -> fix_db_paths_v2(doc)

Message(s) ==
  CASE s = "fix_all_db_paths" -> "Fixed all database path references"
    [] s = "fix_commands" -> "Fixed commands.rs"
    [] s = "fix_commands2" -> "Fixed app_data_dir references"
    [] s = "fix_db_paths_v2" -> "Fixed all database path references successfully"

-----------------------------------------------------------------------------
(* The documents the scripts are run on: up to MaxSites call sites, one per *)
(* line.  A site is a rendering of the obsolete idiom, a command signature, *)
(* a get_connection call or an already migrated statement.                  *)

MaxSites == 2

Fallible == <<"}", ")", "?", ";">>
NonFallible == <<"}", ")", ";">>
Unclosed == <<"}", ";">>
Terminators == {Fallible, NonFallible, Unclosed}

\* the idiom as fix_db_paths_v2.py spells it, indented by units of n spaces
Indented(n, term) ==
  Indent(n) \o LetAppDataDir \o <<APP_PATH, NL>>
    \o Indent(2 * n) \o <<".", MAP_ERR, SP, "{", NL>>
    \o Indent(3 * n) \o <<LOG_ERR, NL>>
    \o Indent(3 * n) \o <<TO_STRING, NL>>
    \o Indent(2 * n) \o term \o <<NL>>
    \o Indent(n) \o LetDbPath \o <<JOIN_DB, ";">>

\* the idiom on one line: gap between `let` and `app_data_dir`, gap after
\* the `.` of `.map_err`, and one space at the other breaks
OneLine(letGap, dotGap, term) ==
  <<"let">> \o letGap \o <<"app_data_dir", SP, "=", SP, APP_PATH, ".">> \o dotGap
    \o <<MAP_ERR, SP, "{", SP, LOG_ERR, SP, TO_STRING, SP>> \o term \o <<SP>>
    \o LetDbPath \o <<JOIN_DB, ";">>

IdiomSites ==
  {Indented(4, Fallible), Indented(4, NonFallible), Indented(2, NonFallible),
   OneLine(<<SP>>, <<>>, NonFallible), OneLine(<<SP>>, <<>>, Unclosed),
   OneLine(<<SP, SP>>, <<>>, NonFallible), OneLine(<<SP>>, <<SP>>, NonFallible)}

DbPathParam == <<"db_path", ":", SP, STATE_DBPATH>>
IdParam == <<"id", ":", SP, "String">>
AppParam == <<"app", ":", SP, "AppHandle">>

RECURSIVE JoinWith(_, _)
\* the sequences of seqs joined, sep between each two
JoinWith(seqs, sep) ==
  IF Len(seqs) = 0 THEN <<>>
  ELSE IF Len(seqs) = 1 THEN seqs[1]
  ELSE seqs[1] \o sep \o JoinWith(Tail(seqs), sep)

Signature(params) ==
  <<"pub", SP, "async", SP, "fn", SP, "create_project", "(">>
    \o JoinWith(params, <<",", SP>>) \o <<")">>

ParamLists ==
  {<<DbPathParam>>, <<IdParam, DbPathParam>>, <<DbPathParam, IdParam>>}

SignatureSites == {Signature(ps) : ps \in ParamLists}

CallSite == <<"get_connection", "(", "db_path", ".", "as_path", "(", ")", ")">>

MigratedSite == LetDbPath \o <<GET_DB_PATH, "?", ";">>

Sites == IdiomSites \cup SignatureSites \cup {CallSite, MigratedSite}

SiteLists == UNION {[1..n -> Sites] : n \in 1..MaxSites}

Docs == {JoinWith(sl, <<NL>>) : sl \in SiteLists}

\* the documents of the concurrent runs: two call sites
ConcSites == {CallSite, OneLine(<<SP>>, <<>>, NonFallible), MigratedSite}

ConcDocs == {JoinWith(<<a, b>>, <<NL>>) : a, b \in ConcSites}

-----------------------------------------------------------------------------
(* The file and the processes *)

ChunkLen == 16

Procs == {1, 2}

VARIABLES
  file,     \* the content of src/commands.rs
  opens,    \* how many times the file was opened for writing
  stdout,   \* the lines printed
  pc,       \* pc[p]: where process p stands in its script
  script,   \* script[p]: the script process p runs
  content,  \* content[p]: the script's variable content
  off,      \* off[p]: the offset of p's file object, in lexemes
  input,    \* input[p]: what p read (history)
  subs,     \* subs[p]: the substitutions p's re.sub calls made (history)
  orig,     \* the document at the start (history)
  order,    \* the processes in the order of their reads (history)
  overlap   \* a process has read while the other was in flight (history)

vars ==
  <<file, opens, stdout, pc, script, content, off, input, subs, orig, order, overlap>>

Other(p) == IF p = 1 THEN 2 ELSE 1

\* p has read the file and has not finished writing it
InFlight(p) == pc[p] \in {"read", "subbed", "opened"}

\* how many lexemes of doc are in S
Count(doc, S) == Cardinality({i \in 1..Len(doc) : doc[i] \in S})

\* opening minus closing parentheses, braces and brackets of doc (no lexeme
\* holds a bracket; MAP_ERR opens a parenthesis, the other long lexemes are
\* balanced)
Balance(doc) ==
  <<Count(doc, {"(", MAP_ERR}) - Count(doc, {")"}),
    Count(doc, {"{"}) - Count(doc, {"}"}),
    0>>

\* an open that keeps the old content (mode 'r+')
Truncated_not(old) == old

\* what open(..., 'w') leaves of the file
Truncated(old) == <<>>

\* the file after a write of chunk at offset o (a gap is filled with NULs)
WriteAt(old, o, chunk) ==
  [i \in 1..(IF Len(old) > o + Len(chunk) THEN Len(old) ELSE o + Len(chunk)) |->
     IF i > o /\ i <= o + Len(chunk) THEN chunk[i - o]
     ELSE IF i <= Len(old) THEN old[i] ELSE NUL]

\* a write that is dropped when it changes the delimiter balance
Written_guarded(old, new) ==
  IF Balance(new) = Balance(old) THEN WriteAt(<<>>, 0, new) ELSE old

\* what `with open(..., 'w') as f: f.write(content)` leaves in the file
Written(old, new) == WriteAt(Truncated(old), 0, new)

InitProcs ==
  /\ opens = 0
  /\ stdout = <<>>
  /\ pc = [p \in Procs |-> "idle"]
  /\ script = [p \in Procs |-> "none"]
  /\ content = [p \in Procs |-> <<>>]
  /\ off = [p \in Procs |-> 0]
  /\ input = [p \in Procs |-> <<>>]
  /\ subs = [p \in Procs |-> 0]
  /\ order = <<>>
  /\ overlap = FALSE

Init ==
  /\ file \in Docs
  /\ orig = file
  /\ InitProcs

\* the effect of a run of script s by process 1 that finds document doc,
\* whether it opens the file for writing (wrote) or not
RunEffect(s, doc, wrote) ==
  /\ \E r \in {Rewrite(s, doc)} :
         /\ file' = IF wrote THEN Written(doc, r.doc) ELSE doc
         /\ input' = [input EXCEPT ![1] = doc]
         /\ content' = [content EXCEPT ![1] = r.doc]
         /\ subs' = [subs EXCEPT ![1] = r.n]
         /\ off' = [off EXCEPT ![1] = IF wrote THEN Len(r.doc) ELSE 0]
  /\ opens' = IF wrote THEN opens + 1 ELSE opens
  /\ stdout' = Append(stdout, Message(s))
  /\ script' = [script EXCEPT ![1] = s]
  /\ pc' = [pc EXCEPT ![1] = "done"]
  /\ order' = Append(order, 1)
  /\ UNCHANGED <<orig, overlap>>

\* a run that leaves the file alone when its re.sub calls changed nothing
RunScript_skips(s) ==
  /\ pc[1] = "idle"
  /\ RunEffect(s, file, Rewrite(s, file).doc # file)

\* one script run from its first line to its last, by process 1
RunScript(s) ==
  /\ pc[1] = "idle"
  /\ RunEffect(s, file, TRUE)

FixAllDbPaths == RunScript("fix_all_db_paths")
FixCommands == RunScript("fix_commands")
FixCommands2 == RunScript("fix_commands2")
FixDbPathsV2 == RunScript("fix_db_paths_v2")

Next == FixAllDbPaths \/ FixCommands \/ FixCommands2 \/ FixDbPathsV2

Spec == Init /\ [][Next]_vars

-----------------------------------------------------------------------------
(* Two scripts started concurrently on the file, statement by statement,    *)
(* and a crash of a process while its file object is open for writing.      *)

InitConc ==
  /\ file \in ConcDocs
  /\ orig = file
  /\ InitProcs

Start(p, s) ==
  /\ pc[p] = "idle"
  /\ pc' = [pc EXCEPT ![p] = "start"]
  /\ script' = [script EXCEPT ![p] = s]
  /\ UNCHANGED <<file, opens, stdout, content, off, input, subs, orig, order, overlap>>

\* process p at "start" reads text as the content of the file
ReadAs(p, text) ==
  /\ pc[p] = "start"
  /\ content' = [content EXCEPT ![p] = text]
  /\ input' = [input EXCEPT ![p] = text]
  /\ order' = Append(order, p)
  /\ overlap' = (overlap \/ InFlight(Other(p)))
  /\ pc' = [pc EXCEPT ![p] = "read"]
  /\ UNCHANGED <<file, opens, stdout, script, off, subs, orig>>

\* a read that returns the document as it was at the start
Read_stale(p) == ReadAs(p, orig)

\* with open('src/commands.rs', 'r') as f: content = f.read()
Read(p) == ReadAs(p, file)

\* content = re.sub(...)
Substitute(p) ==
  /\ pc[p] = "read"
  /\ \E r \in {Rewrite(script[p], content[p])} :
         /\ content' = [content EXCEPT ![p] = r.doc]
         /\ subs' = [subs EXCEPT ![p] = r.n]
  /\ pc' = [pc EXCEPT ![p] = "subbed"]
  /\ UNCHANGED <<file, opens, stdout, script, off, input, orig, order, overlap>>

\* open('src/commands.rs', 'w')
OpenForWrite(p) ==
  /\ pc[p] = "subbed"
  /\ file' = Truncated(file)
  /\ opens' = opens + 1
  /\ off' = [off EXCEPT ![p] = 0]
  /\ pc' = [pc EXCEPT ![p] = "opened"]
  /\ UNCHANGED <<stdout, script, content, input, subs, orig, order, overlap>>

\* f.write(content): the file object hands the text on in chunks
WriteChunk(p) ==
  /\ pc[p] = "opened"
  /\ off[p] < Len(content[p])
  /\ LET to == IF off[p] + ChunkLen < Len(content[p])
               THEN off[p] + ChunkLen ELSE Len(content[p])
     IN  /\ file' = WriteAt(file, off[p], SubSeq(content[p], off[p] + 1, to))
         /\ off' = [off EXCEPT ![p] = to]
  /\ UNCHANGED <<opens, stdout, pc, script, content, input, subs, orig, order, overlap>>

\* the end of the with block
Close(p) ==
  /\ pc[p] = "opened"
  /\ off[p] = Len(content[p])
  /\ pc' = [pc EXCEPT ![p] = "closed"]
  /\ UNCHANGED <<file, opens, stdout, script, content, off, input, subs, orig, order, overlap>>

\* print("Fixed ...")
PrintDone(p) ==
  /\ pc[p] = "closed"
  /\ stdout' = Append(stdout, Message(script[p]))
  /\ pc' = [pc EXCEPT ![p] = "done"]
  /\ UNCHANGED <<file, opens, script, content, off, input, subs, orig, order, overlap>>

\* the process dies between the open and the end of the with block
Crash(p) ==
  /\ pc[p] = "opened"
  /\ pc' = [pc EXCEPT ![p] = "crashed"]
  /\ UNCHANGED <<file, opens, stdout, script, content, off, input, subs, orig, order, overlap>>

NextConc ==
  \E p \in Procs :
    \/ \E s \in Scripts : Start(p, s)
    \/ Read(p)
    \/ Substitute(p)
    \/ OpenForWrite(p)
    \/ WriteChunk(p)
    \/ Close(p)
    \/ PrintDone(p)
    \/ Crash(p)

SpecConc == InitConc /\ [][NextConc]_vars

-----------------------------------------------------------------------------
(* Properties *)

Done(p) == pc[p] = "done"

\* from the documents of X, each with the scripts still to run on it, the
\* documents after one more of those scripts has run
After(X) ==
  {x \in X : x.left = {}}
    \cup UNION {{[doc |-> Rewrite(s, x.doc).doc, left |-> x.left \ {s}] : s \in x.left} :
                  x \in X}

\* the documents the scripts of S (four at most) leave when run one after the
\* other on doc, over all the orders they can be run in
Finals(doc, S) ==
  {x.doc : x \in After(After(After(After({[doc |-> doc, left |-> S]}))))}

\* C1: a script run on its own output makes zero substitutions and leaves
\* the document as it is; and after the four scripts have run in any fixed
\* order, a second run of them (each script, so all four in that order)
\* makes zero substitutions and changes nothing.
C1_Idempotent ==
  /\ \A p \in Procs :
       Done(p) => Rewrite(script[p], content[p]) = [doc |-> content[p], n |-> 0]
  /\ pc[1] = "idle" =>
       \A once \in Finals(file, Scripts) :
         \A s \in Scripts : Rewrite(s, once) = [doc |-> once, n |-> 0]

C1_Witness == Done(1) /\ script[1] = "fix_commands" /\ subs[1] = 2

\* the document with the match of rule at position a alone rewritten
RewriteAt(rule, doc, a) ==
  SubSeq(doc, 1, a - 1) \o Expand(rule, doc, a, 1)
    \o SubSeq(doc, MatchEnd(rule.pat, doc, a), Len(doc))

\* where position b, right of the match at a, stands once that match is rewritten
Shifted(rule, doc, a, b) ==
  b + Len(Expand(rule, doc, a, 1)) - (MatchEnd(rule.pat, doc, a) - a)

\* two call sites of doc that match rule and do not overlap
SitePairs(rule, doc) ==
  {ab \in MatchStarts(rule.pat, doc, 1) \X MatchStarts(rule.pat, doc, 1) :
     ab[1] < ab[2] /\ MatchEnd(rule.pat, doc, ab[1]) <= ab[2]}

AThenB(rule, doc, a, b) ==
  RewriteAt(rule, RewriteAt(rule, doc, a), Shifted(rule, doc, a, b))

BThenA(rule, doc, a, b) == RewriteAt(rule, RewriteAt(rule, doc, b), a)

\* C8: for two call sites A and B that match a rule and do not overlap,
\* rewriting A then B gives the document that rewriting B then A gives, and
\* when they are the only two this is the result of the rule's re.sub pass,
\* which makes 2 substitutions.
C8_Commutes ==
  \A p \in Procs : Done(p) =>
    \A k \in DOMAIN RulesOf(script[p]) : \A rule \in {RulesOf(script[p])[k]} :
      \A ab \in SitePairs(rule, input[p]) :
        /\ AThenB(rule, input[p], ab[1], ab[2]) = BThenA(rule, input[p], ab[1], ab[2])
        /\ Cardinality(MatchStarts(rule.pat, input[p], 1)) = 2 =>
             re_sub(rule, input[p]) =
               [doc |-> AThenB(rule, input[p], ab[1], ab[2]), n |-> 2]

C8_Witness ==
  /\ Done(1) /\ script[1] = "fix_all_db_paths" /\ subs[1] = 2
  /\ SitePairs(FixAllDbPaths_rule, input[1]) # {}
  /\ Len(content[1]) < Len(input[1])

\* the three scripts that rewrite the obsolete idiom
IdiomScripts == {"fix_all_db_paths", "fix_commands2", "fix_db_paths_v2"}

\* the obsolete idiom, whatever the length of its whitespace runs, with the
\* fallible or the non-fallible terminator
Idiom ==
  <<Lit(<<"let">>), Plus(Whitespace), Lit(<<"app_data_dir">>), Plus(Whitespace),
    Lit(<<"=">>), Plus(Whitespace), Lit(<<APP_PATH>>), Star(Whitespace),
    Lit(<<".", MAP_ERR>>), Plus(Whitespace), Lit(<<"{">>), Star(Whitespace),
    Lit(<<LOG_ERR>>), Star(Whitespace), Lit(<<TO_STRING>>), Star(Whitespace),
    Lit(<<"}", ")">>), Opt("?"), Lit(<<";">>), Star(Whitespace),
    Lit(<<"let">>), Plus(Whitespace), Lit(<<"db_path">>), Plus(Whitespace),
    Lit(<<"=">>), Plus(Whitespace), Lit(<<JOIN_DB, ";">>)>>

\* the one canonical statement
Canonical == LetDbPath \o <<GET_DB_PATH, "?", ";">>

\* doc with its lexemes from position i up to position e - 1 replaced by ts
ReplaceSpan(doc, i, e, ts) == SubSeq(doc, 1, i - 1) \o ts \o SubSeq(doc, e, Len(doc))

\* the spans [a, b) and [c, d) share a lexeme
Overlap(a, b, c, d) == a < d /\ c < b

\* C2: when a script rewrites an occurrence of the obsolete idiom, its output
\* is the input with that occurrence, from `let app_data_dir` to the `;` of
\* the join statement, replaced by the canonical statement and by nothing else.
C2_CompleteReplacement ==
  \A p \in Procs : (Done(p) /\ script[p] \in IdiomScripts /\ subs[p] = 1) =>
    \A rule \in {RulesOf(script[p])[1]} :
      \A j \in MatchStarts(rule.pat, input[p], 1) :
        \A i \in MatchStarts(Idiom, input[p], 1) :
          Overlap(j, MatchEnd(rule.pat, input[p], j), i, MatchEnd(Idiom, input[p], i))
            => content[p] =
                 ReplaceSpan(input[p], i, MatchEnd(Idiom, input[p], i), Canonical)

\* the document is one rendering of the obsolete idiom, indented or not
IsRendering(doc) ==
  \E i \in 1..Len(doc) :
    /\ \A k \in 1..(i - 1) : doc[k] \in Whitespace
    /\ MatchEnd(Idiom, doc, i) = Len(doc) + 1

\* C3: each of the three idiom scripts matches, and so rewrites, every
\* rendering of the obsolete idiom.
C3_MatchesEveryRendering ==
  \A p \in Procs : (Done(p) /\ script[p] \in IdiomScripts /\ IsRendering(input[p])) =>
    subs[p] >= 1 /\ content[p] # input[p]

NotWhitespace(t) == t \notin Whitespace

\* the lexemes of doc without the whitespace
Squeeze(doc) == SelectSeq(doc, NotWhitespace)

\* the parameter list with db_path replaced by app: AppHandle
Replaced(ps) == [k \in 1..Len(ps) |-> IF ps[k] = DbPathParam THEN AppParam ELSE ps[k]]

\* the signature with parameters ps and a comma after the last one
SignatureTrailing(ps) ==
  SubSeq(Signature(ps), 1, Len(Signature(ps)) - 1) \o <<",", ")">>

\* C4: the signature rule yields the original parameter list with the db_path
\* parameter alone replaced by app: AppHandle, the other parameters kept in
\* their order and separated by single commas (whitespace aside, and a comma
\* after the last parameter allowed).
C4_SignatureFidelity ==
  \A p \in Procs : (Done(p) /\ script[p] = "fix_commands") =>
    \A ps \in ParamLists :
      input[p] = Signature(ps) =>
        Squeeze(content[p]) \in {Squeeze(Signature(Replaced(ps))),
                                 Squeeze(SignatureTrailing(Replaced(ps)))}

\* C10: the three idiom scripts run one after the other leave the same
\* document in every order.
C10_OrderIndependent ==
  pc[1] = "idle" => Cardinality(Finals(file, IdiomScripts)) = 1

NoOccurrence(s, doc) ==
  \A k \in DOMAIN RulesOf(s) : MatchStarts(RulesOf(s)[k].pat, doc, 1) = {}

FixMessages == {Message(s) : s \in Scripts}

AloneWriting(p) ==
  pc[p] \in {"opened", "crashed"} /\ pc[Other(p)] \in {"idle", "start", "read", "subbed"}

Both(a, b) == Rewrite(script[b], Rewrite(script[a], orig).doc).doc

=============================================================================
